---- MODULE Spec2Model ----
(***************************************************************************)
(* Token lifecycle of the eduvulcan token fetcher: main.py (fetch_new_token,*)
(* watchdog_loop, main) and api.py (POST /refresh, which runs               *)
(* "main.py --once" in a subprocess).  Process 0 is the watchdog process,   *)
(* processes 1..NumRequests are the POST /refresh requests that arrive,     *)
(* each at any time and answered once.                                      *)
(***************************************************************************)
EXTENDS Integers, Sequences, FiniteSets, TLC

\* ---------------------------------------------------------------- bounds
NumRequests == 1
MaxTime == 330
MaxTimeLive == 900

\* ------------------------------------------------------ program constants
REFRESH_MARGIN == 300
MinSleep == 60
BackoffSleep == 300
PostRefreshSleep == 30
ExitOk == 0
ExitError == 1
ExitConfig == 1
HttpOk == 200
HttpError == 500

Watchdog == 0
Requests == 1..NumRequests
Procs == {Watchdog} \cup Requests

\* ------------------------------------------------------------ token data
\* A claim value as JSON gives it: an integer, a numeric string, another
\* string, or no such key.
IntVal(n) == [kind |-> "int", v |-> n]
NumStr(n) == [kind |-> "numstr", v |-> n]
BadStr == [kind |-> "badstr", v |-> 0]
NoVal == [kind |-> "absent", v |-> 0]

\* The decoded claim set.  tenant "<absent>" stands for a payload without
\* the key; isDict FALSE for a jwt_payload that is missing or no mapping.
Claims(e, t) == [isDict |-> TRUE, exp |-> e, tenant |-> t]
NoClaims == [isDict |-> FALSE, exp |-> NoVal, tenant |-> "<absent>"]

\* One dot-separated segment of a raw token: its length modulo 4, the
\* number of its characters outside the base64url alphabet, whether the
\* decoded bytes are JSON, and the JSON value.
JunkSegment(n, k, j, c) == [len4 |-> n, junk |-> k, json |-> j, claims |-> c]
Segment(n, j, c) == JunkSegment(n, 0, j, c)
Header == Segment(0, TRUE, NoClaims)
Signature == Segment(3, FALSE, NoClaims)
Jwt3(c) == <<Header, Segment(2, TRUE, c), Signature>>

\* Python's int(): an int is itself, a numeric string is parsed, anything
\* else raises.
IntOk(x) == x.kind \in {"int", "numstr"}
IntOf(x) == x.v

\* base64.urlsafe_b64decode of a segment padded with "=" * (-len % 4): the
\* decoder drops the characters outside the alphabet, and accepts what is
\* left when it is a multiple of 4 characters, or 4k+2 with two pad
\* characters at least, or 4k+3 with one; it raises otherwise.
PadLen(n) == (4 - (n % 4)) % 4
B64Ok(seg) ==
  LET data4 == (seg.len4 + 4 - (seg.junk % 4)) % 4
      pads == PadLen(seg.len4)
  IN \/ data4 = 0
     \/ data4 = 2 /\ pads >= 2
     \/ data4 = 3 /\ pads >= 1

\* decode_jwt_payload: jwt.split(".")[1], padded, base64url-decoded,
\* json.loads.  ok FALSE stands for the exception: no second segment, a
\* segment b64decode rejects, or bytes that are no JSON.
decode_jwt_payload(jwt) ==
  IF Len(jwt) < 2 THEN [ok |-> FALSE, claims |-> NoClaims]
  ELSE LET seg == jwt[2] IN
       IF ~B64Ok(seg) THEN [ok |-> FALSE, claims |-> NoClaims]
       ELSE IF ~seg.json THEN [ok |-> FALSE, claims |-> NoClaims]
       ELSE [ok |-> TRUE, claims |-> seg.claims]

\* The token record of the token file.
Record(t, j, c, at, src) ==
  [tenant |-> t, jwt |-> j, jwt_payload |-> c, fetched_at |-> at, source |-> src]
NoRecord == Record("<absent>", <<>>, NoClaims, 0, "")

\* The token file: absent, holding a complete JSON document ("full"), or
\* holding something json.load rejects: nothing ("empty", after the
\* truncating open), a prefix of the document ("partial"), or other bytes
\* ("corrupt").
File(s, r) == [st |-> s, rec |-> r]
AbsentFile == File("absent", NoRecord)

\* read_saved_token: None when the file is absent or json.load raises.
read_saved_token(file) ==
  IF file.st = "full" THEN [some |-> TRUE, data |-> file.rec]
  ELSE [some |-> FALSE, data |-> NoRecord]

\* token_validity: (is_valid, exp, seconds_left); (False, 0, 0) on any
\* exception (no jwt_payload, no exp, exp that int() rejects).
NoVerdict == [valid |-> FALSE, exp |-> 0, seconds_left |-> 0]
token_validity_never(token_data, t) == NoVerdict
token_validity_ge(token_data, t) ==
  IF token_data.jwt_payload.isDict /\ IntOk(token_data.jwt_payload.exp)
    THEN LET exp == IntOf(token_data.jwt_payload.exp) IN
         [valid |-> exp - t >= REFRESH_MARGIN, exp |-> exp, seconds_left |-> exp - t]
    ELSE NoVerdict
token_validity(token_data, t) ==
  IF token_data.jwt_payload.isDict /\ IntOk(token_data.jwt_payload.exp)
    THEN LET exp == IntOf(token_data.jwt_payload.exp) IN
         [valid |-> exp - t > REFRESH_MARGIN, exp |-> exp, seconds_left |-> exp - t]
    ELSE NoVerdict

Max(a, b) == IF a >= b THEN a ELSE b

\* watchdog_loop, line 170: sleep_for.
SleepForNoMargin(seconds_left) == Max(MinSleep, seconds_left)
SleepFor(seconds_left) == Max(MinSleep, seconds_left - REFRESH_MARGIN)

\* watchdog_loop, line 171: datetime.fromtimestamp(exp, tz=timezone.utc)
\* raises ValueError for exp > 253402300799, the last second of the year
\* 9999.  That number is beyond the integers of the model checker, so the
\* time line is compressed above the times the model reaches: FarFuture
\* stands for 253402300800, the first exp the conversion rejects, and
\* every smaller timestamp of the model is itself.
FarFuture == 2000000000
FromTimestampOk(exp) == exp < FarFuture

\* ------------------------------------------------------- SessionAcquirer
\* What lines 77-119 of fetch_new_token yield at time t: an exception (a
\* timeout, a missing selector), or the value of the #ap element.
ExpOffsets == {200, 390}
TokenJson(j, toks) == [raised |-> FALSE, isJson |-> j, Tokens |-> toks]
AcquireError == [raised |-> TRUE, isJson |-> FALSE, Tokens |-> <<>>]
AcquirerResults(t) ==
  {AcquireError, TokenJson(FALSE, <<>>), TokenJson(TRUE, <<>>),
   TokenJson(TRUE, << <<>> >>), TokenJson(TRUE, << <<Header>> >>)}
  \cup {TokenJson(TRUE, <<Jwt3(Claims(IntVal(t + d), "t1"))>>) : d \in ExpOffsets}
  \cup {TokenJson(TRUE, <<Jwt3(Claims(IntVal(t + 390), tn))>>) : tn \in {"", "<absent>"}}

\* Lines 120-139 of fetch_new_token on the value token_json at time t: the
\* exception raised ("none" when none; "notoken" when the value is no JSON
\* or has no Tokens[0]) and the record to write.
Extracted(e, out) == [err |-> e, output |-> out]
ExtractTokenAnyTenant(token_json, t) ==
  IF token_json.raised THEN Extracted("acquire", NoRecord)
  ELSE IF ~token_json.isJson \/ token_json.Tokens = <<>> \/ token_json.Tokens[1] = <<>>
    THEN Extracted("notoken", NoRecord)
  ELSE LET jwt == token_json.Tokens[1]
           dec == decode_jwt_payload(jwt)
       IN IF ~dec.ok THEN Extracted("decode", NoRecord)
          ELSE IF ~dec.claims.isDict THEN Extracted("decode", NoRecord)
          ELSE Extracted("none",
                 Record(dec.claims.tenant, jwt, dec.claims, t, "eduvulcan.pl/api/ap"))
ExtractToken(token_json, t) ==
  IF token_json.raised THEN Extracted("acquire", NoRecord)
  ELSE IF ~token_json.isJson \/ token_json.Tokens = <<>> \/ token_json.Tokens[1] = <<>>
    THEN Extracted("notoken", NoRecord)
  ELSE LET jwt == token_json.Tokens[1]
           dec == decode_jwt_payload(jwt)
       IN IF ~dec.ok THEN Extracted("decode", NoRecord)
          ELSE IF ~dec.claims.isDict THEN Extracted("decode", NoRecord)
          ELSE IF dec.claims.tenant \in {"", "<absent>"}
            THEN Extracted("tenant", NoRecord)
          ELSE Extracted("none",
                 Record(dec.claims.tenant, jwt, dec.claims, t, "eduvulcan.pl/api/ap"))

\* ------------------------------------------------------------------ state
VARIABLES
  now,          \* int(time.time()), seconds
  creds,        \* EDUVULCAN_LOGIN and EDUVULCAN_PASSWORD are both set
  tokenFile,    \* TOKEN_FILE
  storageFile,  \* STORAGE_FILE
  pc,           \* each process's position
  browser,      \* the process has a browser open
  output,       \* fetch_new_token's record to write
  err,          \* the exception fetch_new_token is raising ("none": none)
  touched,      \* this run of fetch_new_token has changed TOKEN_FILE
  wakeAt,       \* when the watchdog's asyncio.sleep returns
  exitCode      \* main's return value (-1: still running)

vars == <<now, creds, tokenFile, storageFile, pc, browser, output, err, touched,
          wakeAt, exitCode>>

NoSession == [saved |-> FALSE]
Session(p) == [saved |-> TRUE]

\* Token files a previous run, or somebody else, can have left behind.
StoredRecord(c) == Record("t1", Jwt3(c), c, 0, "eduvulcan.pl/api/ap")
InitFiles ==
  {AbsentFile, File("corrupt", NoRecord)}
  \cup {File("full", StoredRecord(Claims(e, "t1"))) :
          e \in {IntVal(390), IntVal(330), IntVal(200), IntVal(0 - 100), NumStr(390),
                 IntVal(FarFuture), BadStr, NoVal}}
  \cup {File("full", Record("t1", Jwt3(NoClaims), NoClaims, 0, "eduvulcan.pl/api/ap"))}

Init ==
  /\ now = 0
  /\ creds \in BOOLEAN
  /\ tokenFile \in InitFiles
  /\ storageFile = NoSession
  /\ pc = [p \in Procs |-> IF p = Watchdog THEN "main" ELSE "idle"]
  /\ browser = [p \in Procs |-> FALSE]
  /\ output = [p \in Procs |-> NoRecord]
  /\ err = [p \in Procs |-> "none"]
  /\ touched = [p \in Procs |-> FALSE]
  /\ wakeAt = 0
  /\ exitCode = [p \in Procs |-> 0 - 1]

InFetch == {"launch", "acquire", "open", "dump", "closefile", "storage", "close"}
Sleeping == {"sleep_valid", "sleep_backoff", "sleep_ok"}

\* ---------------------------------------------------------------- api.py
\* refresh, lines 8-12: POST /refresh runs "main.py --once" in a subprocess.
Refresh(r) ==
  /\ pc[r] = "idle"
  /\ pc' = [pc EXCEPT ![r] = "main"]
  /\ UNCHANGED <<now, creds, tokenFile, storageFile, browser, output, err, touched,
                 wakeAt, exitCode>>

\* refresh, lines 14-20: 200 when the subprocess returned 0, else 500.
ResponseStatus(code) == IF code = ExitOk THEN HttpOk ELSE HttpError
Respond(r) ==
  /\ pc[r] = "exited"
  /\ pc' = [pc EXCEPT ![r] = "responded"]
  /\ UNCHANGED <<now, creds, tokenFile, storageFile, browser, output, err, touched,
                 wakeAt, exitCode>>

\* --------------------------------------------------------------- main.py
\* main, lines 197-209: without credentials return 1; with --once call
\* fetch_new_token, otherwise enter watchdog_loop.
Main(p) ==
  /\ pc[p] = "main"
  /\ IF ~creds
       THEN /\ pc' = [pc EXCEPT ![p] = "exited"]
            /\ exitCode' = [exitCode EXCEPT ![p] = ExitConfig]
            /\ err' = [err EXCEPT ![p] = "config"]
       ELSE /\ pc' = [pc EXCEPT ![p] = IF p = Watchdog THEN "loop" ELSE "launch"]
            /\ UNCHANGED <<exitCode, err>>
  /\ UNCHANGED <<now, creds, tokenFile, storageFile, browser, output, touched,
                 wakeAt>>

\* watchdog_loop, lines 165-179: read the token file; a valid token sends
\* the loop to sleep for max(60, seconds_left - REFRESH_MARGIN), anything
\* else to fetch_new_token.  The valid branch formats exp for its log line
\* outside any try: an exception there leaves watchdog_loop, and main
\* (lines 211-213) returns 1.
NeedsRefreshAlways(tok, v) == TRUE
NeedsRefresh(tok, v) == ~(tok.some /\ v.valid)
LoopCheck ==
  /\ pc[Watchdog] = "loop"
  /\ LET tok == read_saved_token(tokenFile)
         v == IF tok.some THEN token_validity(tok.data, now) ELSE NoVerdict
     IN IF NeedsRefresh(tok, v)
          THEN /\ pc' = [pc EXCEPT ![Watchdog] = "launch"]
               /\ UNCHANGED <<wakeAt, exitCode>>
          ELSE IF FromTimestampOk(v.exp)
            THEN /\ pc' = [pc EXCEPT ![Watchdog] = "sleep_valid"]
                 /\ wakeAt' = now + SleepFor(v.seconds_left)
                 /\ UNCHANGED exitCode
            ELSE /\ pc' = [pc EXCEPT ![Watchdog] = "exited"]
                 /\ exitCode' = [exitCode EXCEPT ![Watchdog] = ExitError]
                 /\ UNCHANGED wakeAt
  /\ UNCHANGED <<now, creds, tokenFile, storageFile, browser, output, err, touched>>

\* fetch_new_token, lines 59-74: launch the browser, open a context (with
\* the stored session when STORAGE_FILE exists) and a page.  These lines
\* are outside the try: when one raises, the exception leaves the
\* "async with async_playwright()" block, whose exit stops Playwright and
\* with it the browser it launched.
Launch(p) ==
  /\ pc[p] = "launch"
  /\ \/ /\ pc' = [pc EXCEPT ![p] = "acquire"]
        /\ browser' = [browser EXCEPT ![p] = TRUE]
        /\ err' = [err EXCEPT ![p] = "none"]
     \/ /\ pc' = [pc EXCEPT ![p] = "return"]
        /\ browser' = [browser EXCEPT ![p] = FALSE]
        /\ err' = [err EXCEPT ![p] = "launch"]
  /\ touched' = [touched EXCEPT ![p] = FALSE]
  /\ UNCHANGED <<now, creds, tokenFile, storageFile, output, wakeAt,
                 exitCode>>

\* fetch_new_token, lines 77-139: the login flow, the read of #ap, and the
\* decoding and checks of the token; any exception goes to the finally.
AcquireFrom(p, results) ==
  /\ pc[p] = "acquire"
  /\ \E token_json \in results :
       LET x == ExtractToken(token_json, now) IN
         /\ err' = [err EXCEPT ![p] = x.err]
         /\ output' = [output EXCEPT ![p] = x.output]
         /\ pc' = [pc EXCEPT ![p] = IF x.err = "none" THEN "open" ELSE "close"]
  /\ UNCHANGED <<now, creds, tokenFile, storageFile, browser, touched, wakeAt, exitCode>>
Acquire(p) == AcquireFrom(p, AcquirerResults(now))

\* fetch_new_token, line 141: open(TOKEN_FILE, "w") truncates the file, or
\* raises (no such directory, no permission) and leaves it alone.
OpenTruncates(p) == File("empty", NoRecord)
OpenTokenFile(p) ==
  /\ pc[p] = "open"
  /\ \/ /\ tokenFile' = OpenTruncates(p)
        /\ pc' = [pc EXCEPT ![p] = "dump"]
        /\ UNCHANGED <<err, output>>
     \/ /\ tokenFile' = tokenFile
        /\ pc' = [pc EXCEPT ![p] = "close"]
        /\ err' = [err EXCEPT ![p] = "tokenwrite"]
        /\ output' = [output EXCEPT ![p] = NoRecord]
  /\ touched' = [touched EXCEPT ![p] = @ \/ tokenFile' # tokenFile]
  /\ UNCHANGED <<now, creds, storageFile, browser, wakeAt, exitCode>>

\* fetch_new_token, line 142: json.dump writes the document in pieces to
\* the buffered file: the pieces stay in the buffer, or a prefix reaches the
\* file, or a write raises (disk full).
DumpToken(p) ==
  /\ pc[p] = "dump"
  /\ \E flushed \in BOOLEAN, ok \in BOOLEAN :
       /\ tokenFile' = IF flushed THEN File("partial", NoRecord) ELSE tokenFile
       /\ IF ok
            THEN /\ pc' = [pc EXCEPT ![p] = "closefile"]
                 /\ UNCHANGED <<err, output>>
            ELSE /\ pc' = [pc EXCEPT ![p] = "close"]
                 /\ err' = [err EXCEPT ![p] = "tokenwrite"]
                 /\ output' = [output EXCEPT ![p] = NoRecord]
  /\ touched' = [touched EXCEPT ![p] = @ \/ tokenFile' # tokenFile]
  /\ UNCHANGED <<now, creds, storageFile, browser, wakeAt, exitCode>>

\* fetch_new_token, line 143 and the end of the with block: the newline is
\* written and the file flushed and closed, after which it holds the whole
\* record; when another writer completed its own document since this one
\* truncated the file, the bytes of the two overlay each other and the
\* result is this record or no JSON at all.  The flush can raise.
CloseTokenFile(p) ==
  /\ pc[p] = "closefile"
  /\ \/ /\ tokenFile' \in ({File("full", output[p])}
                           \cup IF tokenFile.st = "full"
                                  THEN {File("corrupt", NoRecord)} ELSE {})
        /\ pc' = [pc EXCEPT ![p] = "storage"]
        /\ UNCHANGED err
     \/ /\ tokenFile' = tokenFile
        /\ pc' = [pc EXCEPT ![p] = "close"]
        /\ err' = [err EXCEPT ![p] = "tokenwrite"]
  /\ output' = [output EXCEPT ![p] = NoRecord]
  /\ touched' = [touched EXCEPT ![p] = @ \/ tokenFile' # tokenFile]
  /\ UNCHANGED <<now, creds, storageFile, browser, wakeAt, exitCode>>

\* fetch_new_token, lines 146-150: context.storage_state(path=STORAGE_FILE)
\* saves the session, or raises.
SaveStorage(p) ==
  /\ pc[p] = "storage"
  /\ \/ /\ storageFile' = Session(p)
        /\ UNCHANGED err
     \/ /\ storageFile' = storageFile
        /\ err' = [err EXCEPT ![p] = "storagewrite"]
  /\ pc' = [pc EXCEPT ![p] = "close"]
  /\ UNCHANGED <<now, creds, tokenFile, browser, output, touched, wakeAt,
                 exitCode>>

\* fetch_new_token, lines 152-153: the finally closes the browser; the
\* result, or the exception, then reaches the caller.
CloseBrowserLeak(p) ==
  /\ pc[p] = "close"
  /\ pc' = [pc EXCEPT ![p] = "return"]
  /\ UNCHANGED <<now, creds, tokenFile, storageFile, browser, output, err,
                 touched, wakeAt, exitCode>>
CloseBrowser(p) ==
  /\ pc[p] = "close"
  /\ browser' = [browser EXCEPT ![p] = FALSE]
  /\ pc' = [pc EXCEPT ![p] = "return"]
  /\ UNCHANGED <<now, creds, tokenFile, storageFile, output, err, touched, wakeAt, exitCode>>

\* watchdog_loop, lines 180-189: an exception of fetch_new_token is logged
\* and followed by sleep(300), a return by sleep(30).
SleepAfterFetchShort(e) == PostRefreshSleep
SleepAfterFetchLong(e) == BackoffSleep
SleepAfterFetch(e) == IF e # "none" THEN BackoffSleep ELSE PostRefreshSleep
LoopAfterFetch ==
  /\ pc[Watchdog] = "return"
  /\ pc' = [pc EXCEPT ![Watchdog] =
              IF err[Watchdog] # "none" THEN "sleep_backoff" ELSE "sleep_ok"]
  /\ wakeAt' = now + SleepAfterFetch(err[Watchdog])
  /\ err' = [err EXCEPT ![Watchdog] = "none"]
  /\ touched' = [touched EXCEPT ![Watchdog] = FALSE]
  /\ UNCHANGED <<now, creds, tokenFile, storageFile, browser, output, exitCode>>

\* watchdog_loop, lines 176, 185, 189: asyncio.sleep returns and the loop
\* starts its next iteration.
Wake ==
  /\ pc[Watchdog] \in Sleeping
  /\ now >= wakeAt
  /\ pc' = [pc EXCEPT ![Watchdog] = "loop"]
  /\ wakeAt' = 0
  /\ UNCHANGED <<now, creds, tokenFile, storageFile, browser, output, err, touched,
                 exitCode>>

\* main, lines 204-213, with --once: 0 when fetch_new_token returned, 1 when
\* it raised.
OnceExitCode(e) == IF e = "none" THEN ExitOk ELSE ExitError
ExitOnce(p) ==
  /\ p \in Requests
  /\ pc[p] = "return"
  /\ exitCode' = [exitCode EXCEPT ![p] = OnceExitCode(err[p])]
  /\ pc' = [pc EXCEPT ![p] = "exited"]
  /\ err' = [err EXCEPT ![p] = "none"]
  /\ touched' = [touched EXCEPT ![p] = FALSE]
  /\ UNCHANGED <<now, creds, tokenFile, storageFile, browser, output, wakeAt>>

\* Time passes while the watchdog sleeps, up to the moment its sleep ends;
\* a run of fetch_new_token takes less than a tick of the clock.
TickTo(limit) ==
  /\ pc[Watchdog] \in Sleeping
  /\ \A p \in Procs : pc[p] \notin InFetch
  /\ wakeAt > now
  /\ wakeAt <= limit
  /\ now' = wakeAt
  /\ UNCHANGED <<creds, tokenFile, storageFile, pc, browser, output, err, touched,
                 wakeAt, exitCode>>
Tick == TickTo(MaxTime)

Next ==
  \/ \E r \in Requests : Refresh(r)
  \/ \E r \in Requests : Respond(r)
  \/ \E p \in Procs : Main(p)
  \/ LoopCheck
  \/ \E p \in Procs : Launch(p)
  \/ \E p \in Procs : Acquire(p)
  \/ \E p \in Procs : OpenTokenFile(p)
  \/ \E p \in Procs : DumpToken(p)
  \/ \E p \in Procs : CloseTokenFile(p)
  \/ \E p \in Procs : SaveStorage(p)
  \/ \E p \in Procs : CloseBrowser(p)
  \/ LoopAfterFetch
  \/ Wake
  \/ \E p \in Requests : ExitOnce(p)
  \/ Tick

Spec == Init /\ [][Next]_vars

\* ------------------------------------------------------- the loop alone
\* The watchdog loop with no one-shot run beside it: the loop is the only
\* writer of the token file.
NextLoop ==
  \/ Main(Watchdog)
  \/ LoopCheck
  \/ Launch(Watchdog)
  \/ Acquire(Watchdog)
  \/ OpenTokenFile(Watchdog)
  \/ DumpToken(Watchdog)
  \/ CloseTokenFile(Watchdog)
  \/ SaveStorage(Watchdog)
  \/ CloseBrowser(Watchdog)
  \/ LoopAfterFetch
  \/ Wake
  \/ Tick
SpecLoop == Init /\ [][NextLoop]_vars

\* The loop alone, with credentials, where from time FailUntil on every
\* call of fetch_new_token succeeds: the browser starts, the portal issues
\* a token expiring more than REFRESH_MARGIN ahead, and the token file and
\* the session file are written.  Before FailUntil every step can fail as
\* in Spec.  The loop is the one coroutine of its process and the clock
\* advances, so a step that stays possible is taken: WF_vars(NextLive).
FailUntil == 2 * BackoffSleep
Succeeds(p) ==
  now >= FailUntil =>
    /\ err'[p] = "none"
    /\ pc'[p] = "open" => IntOf(output'[p].jwt_payload.exp) > now + REFRESH_MARGIN
InitLive == Init /\ creds
\* The portal's tokens, and one expiring REFRESH_MARGIN + 30 s ahead: more
\* than the margin when it is issued, the margin when the loop next checks.
LiveResults(t) ==
  AcquirerResults(t)
    \cup {TokenJson(TRUE, <<Jwt3(Claims(IntVal(t + REFRESH_MARGIN + PostRefreshSleep), "t1"))>>)}
LaunchLive == Launch(Watchdog) /\ Succeeds(Watchdog)
AcquireLive == AcquireFrom(Watchdog, LiveResults(now)) /\ Succeeds(Watchdog)
OpenTokenFileLive == OpenTokenFile(Watchdog) /\ Succeeds(Watchdog)
DumpTokenLive == DumpToken(Watchdog) /\ Succeeds(Watchdog)
CloseTokenFileLive == CloseTokenFile(Watchdog) /\ Succeeds(Watchdog)
SaveStorageLive == SaveStorage(Watchdog) /\ Succeeds(Watchdog)
TickLive == TickTo(MaxTimeLive)
NextLive ==
  \/ Main(Watchdog)
  \/ LoopCheck
  \/ LaunchLive
  \/ AcquireLive
  \/ OpenTokenFileLive
  \/ DumpTokenLive
  \/ CloseTokenFileLive
  \/ SaveStorageLive
  \/ CloseBrowser(Watchdog)
  \/ LoopAfterFetch
  \/ Wake
  \/ TickLive
SpecLive == InitLive /\ [][NextLive]_vars /\ WF_vars(NextLive)

\* --------------------------------------------------- the decoder's inputs
\* One-shot runs over the raw tokens decode_jwt_payload can be given: two
\* segments, four segments, and middle segments with characters outside
\* the base64url alphabet, next to the tokens of AcquirerResults.
Payload(c) == Segment(2, TRUE, c)
RawTokens(t) ==
  LET c == Claims(IntVal(t + 390), "t1") IN
  {<<Header>>, <<Header, Payload(c)>>, Jwt3(c),
   <<Header, Payload(c), Signature, Signature>>,
   <<Header, Segment(1, TRUE, c), Signature>>,
   <<Header, JunkSegment(3, 1, TRUE, c), Signature>>,
   <<Header, JunkSegment(1, 3, TRUE, c), Signature>>,
   <<Header, Segment(2, FALSE, NoClaims), Signature>>,
   <<Header, Segment(2, TRUE, NoClaims), Signature>>}
CodecResults(t) == {TokenJson(TRUE, <<jwt>>) : jwt \in RawTokens(t)}
AcquireRaw(p) == AcquireFrom(p, CodecResults(now))
NextCodec ==
  \/ \E r \in Requests : Refresh(r)
  \/ \E r \in Requests : Respond(r)
  \/ \E r \in Requests : Main(r)
  \/ \E r \in Requests : Launch(r)
  \/ \E r \in Requests : AcquireRaw(r)
  \/ \E r \in Requests : OpenTokenFile(r)
  \/ \E r \in Requests : DumpToken(r)
  \/ \E r \in Requests : CloseTokenFile(r)
  \/ \E r \in Requests : SaveStorage(r)
  \/ \E r \in Requests : CloseBrowser(r)
  \/ \E r \in Requests : ExitOnce(r)
SpecCodec == Init /\ [][NextCodec]_vars

\* ------------------------------------------------------------ properties
\* What the record on disk is worth at this moment.
StoredReadable ==
  /\ tokenFile.st = "full"
  /\ tokenFile.rec.jwt_payload.isDict
  /\ tokenFile.rec.jwt_payload.exp.kind \in {"int", "numstr"}
StoredSecondsLeft == tokenFile.rec.jwt_payload.exp.v - now
StoredValid == StoredReadable /\ StoredSecondsLeft > REFRESH_MARGIN

\* The processes with a browser open: a run of fetch_new_token in flight.
InFlight == {p \in Procs : browser[p]}
\* The callers that have invoked fetch_new_token and not yet handled its outcome.
Invoked == {p \in Procs : pc[p] \in (InFetch \ {"launch"}) \cup {"return"}}
\* The step in which p starts a run of fetch_new_token.
Starts(p) == ~browser[p] /\ browser'[p]

\* C1: at every moment at most one run of fetch_new_token is in flight,
\* whatever the interleaving of the watchdog loop and the POST /refresh
\* requests.
C1_AtMostOneInFlight == Cardinality(InFlight) <= 1

\* C2: a run of fetch_new_token that ends with an error has not changed the
\* token file.
C2_FailedRefreshKeepsRecord ==
  \A p \in Procs : (pc[p] = "return" /\ err[p] # "none") => ~touched[p]

C4_StaleInvokesOnce == ~StoredValid => Cardinality(Invoked) <= 1

\* C5: during the cool-down that follows a failed refresh of the loop, no
\* caller starts a run of fetch_new_token.
C5_NoStartInBackoff ==
  [][(pc[Watchdog] = "sleep_backoff" /\ now < wakeAt)
       => \A p \in Procs : ~Starts(p)]_vars

\* C6: the loop takes the stored token for valid only if exp - now >
\* REFRESH_MARGIN, and for invalid only if exp - now <= REFRESH_MARGIN or
\* the record, its claims or its exp cannot be read; an expired token is
\* never taken for valid.
C6_ValidityVerdict ==
  [][(pc[Watchdog] = "loop" /\ pc'[Watchdog] # "loop") =>
       /\ pc'[Watchdog] = "sleep_valid"
            => (StoredReadable /\ StoredSecondsLeft > REFRESH_MARGIN)
       /\ pc'[Watchdog] = "launch"
            => (~StoredReadable \/ StoredSecondsLeft <= REFRESH_MARGIN)
       /\ (StoredReadable /\ StoredSecondsLeft < 0) => pc'[Watchdog] = "launch"]_vars
C6_Witness ==
  /\ pc[Watchdog] = "launch"
  /\ StoredReadable /\ StoredSecondsLeft = REFRESH_MARGIN

\* C7: a reader never sees the token file without a complete record once it
\* held one: every write replaces the record in one step.
C7_ReaderSeesCompleteRecord ==
  [][read_saved_token(tokenFile).some => read_saved_token(tokenFile').some]_vars

\* C8: a token without tenant makes the refresh fail before the token file
\* is touched; the loop then sleeps the backoff of 300 s and a one-shot run
\* exits nonzero.
C8_MissingTenantFails ==
  [][/\ \A p \in Procs : err'[p] = "tenant"
          => /\ ~touched'[p] /\ pc'[p] \in {"close", "return"}
             /\ err[p] # "tenant" => tokenFile' = tokenFile
     /\ (pc[Watchdog] = "return" /\ err[Watchdog] = "tenant" /\ pc'[Watchdog] # "return")
          => (pc'[Watchdog] = "sleep_backoff" /\ wakeAt' = now + 300)
     /\ \A r \in Requests : (pc[r] = "return" /\ err[r] = "tenant" /\ pc'[r] # "return")
          => (pc'[r] = "exited" /\ exitCode'[r] # 0)]_vars
C8_Witness ==
  /\ pc[Watchdog] = "return" /\ err[Watchdog] = "tenant" /\ ~browser[Watchdog]
  /\ tokenFile.st = "full" /\ ~StoredValid

\* C9: when the token record was written and only the save of the session
\* state failed, the refresh counts as a success: exit code 0, and the loop
\* takes the 30 s pause.
C9_StorageFailureIsSuccess ==
  [][/\ \A r \in Requests : (pc[r] = "return" /\ err[r] = "storagewrite" /\ pc'[r] = "exited")
          => exitCode'[r] = 0
     /\ (pc[Watchdog] = "return" /\ err[Watchdog] = "storagewrite" /\ pc'[Watchdog] # "return")
          => pc'[Watchdog] = "sleep_ok"]_vars

\* C10: a one-shot run that fails exits nonzero, and with another code for a
\* failed refresh than the one main returns without credentials.
C10_DistinctExitCodes ==
  [][\A r \in Requests :
       /\ (pc[r] = "main" /\ pc'[r] = "exited") => exitCode'[r] # 0
       /\ (pc[r] = "return" /\ err[r] # "none" /\ pc'[r] = "exited")
            => exitCode'[r] \notin {0, ExitConfig}]_vars

\* C11: with credentials configured the watchdog loop never ends, whatever
\* the stored record holds and however a refresh fails.
C11_LoopNeverExits == creds => pc[Watchdog] # "exited"

\* C12: an acquisition attempt that got as far as the browser session and
\* then found no token, could not decode it or found no tenant has saved
\* the session state by the time it returns.
C12_SessionSavedOnExtractionFailure ==
  \A p \in Procs :
    (pc[p] = "return" /\ err[p] \in {"notoken", "decode", "tenant"})
      => storageFile.saved

\* C13: a loop iteration that finds the stored token valid goes to sleep
\* for exactly max(60, seconds_left - REFRESH_MARGIN) seconds, which is at
\* least 60, and launches no browser.
C13_ValidSleepsExactly ==
  [][(pc[Watchdog] = "loop" /\ pc'[Watchdog] # "loop" /\ StoredValid) =>
       /\ pc'[Watchdog] = "sleep_valid"
       /\ wakeAt' - now = Max(60, StoredSecondsLeft - REFRESH_MARGIN)
       /\ wakeAt' - now >= 60
       /\ ~browser'[Watchdog]]_vars

\* C14: the watchdog loop pauses between two invocations of its own: when
\* fetch_new_token returns, the loop goes to sleep until 30 s later after a
\* success and until 300 s later after a failure, it leaves a sleep only
\* when that time has come, and it calls fetch_new_token only from the
\* check that follows a sleep, however close the expiry of the new token.
C14_PauseBetweenInvocations ==
  [][/\ (pc[Watchdog] = "return" /\ pc'[Watchdog] # "return")
          => \/ err[Watchdog] = "none" /\ pc'[Watchdog] = "sleep_ok"
                  /\ wakeAt' = now + 30
             \/ err[Watchdog] # "none" /\ pc'[Watchdog] = "sleep_backoff"
                  /\ wakeAt' = now + 300
     /\ (pc[Watchdog] \in Sleeping /\ pc'[Watchdog] = pc[Watchdog])
          => (wakeAt' = wakeAt /\ now' >= now)
     /\ (pc[Watchdog] \in Sleeping /\ pc'[Watchdog] # pc[Watchdog])
          => (now >= wakeAt /\ pc'[Watchdog] = "loop")
     /\ (pc[Watchdog] # "launch" /\ pc'[Watchdog] = "launch")
          => pc[Watchdog] = "loop"]_vars
C14_Witness ==
  /\ pc[Watchdog] = "launch" /\ \A r \in Requests : pc[r] = "idle"
  /\ storageFile.saved /\ StoredReadable /\ ~StoredValid
  /\ now = tokenFile.rec.fetched_at + PostRefreshSleep

\* C15: every record written to the token file is well formed: its
\* jwt_payload is what decoding its jwt gives, its tenant is the tenant of
\* jwt_payload and is not empty, its source is set and its fetched_at is
\* the time of the refresh.
RecordWellFormed(rec) ==
  LET dec == decode_jwt_payload(rec.jwt)
  IN /\ dec.ok /\ rec.jwt_payload = dec.claims
     /\ rec.jwt_payload.isDict
     /\ rec.tenant = rec.jwt_payload.tenant
     /\ rec.tenant \notin {"", "<absent>"}
     /\ rec.source # ""
     /\ rec.fetched_at \in 0..now
C15_PersistedRecordWellFormed ==
  [][(tokenFile' # tokenFile /\ tokenFile'.st = "full")
       => RecordWellFormed(tokenFile'.rec)]_vars
C15_Witness ==
  /\ tokenFile.st = "full" /\ tokenFile.rec.fetched_at = BackoffSleep
  /\ storageFile.saved /\ pc[Watchdog] = "sleep_ok"

\* C16: a refresh succeeds in decoding its raw token only when the token
\* has exactly three segments and its middle segment is valid base64url
\* holding JSON: no token of two, four or more segments, and no middle
\* segment with a character outside the alphabet, gets past the decoder.
ValidBase64Url(seg) == seg.junk = 0 /\ seg.len4 # 1
C16_MalformedTokenRejected ==
  [][\A p \in Procs : (pc[p] = "acquire" /\ pc'[p] = "open")
       => /\ Len(output'[p].jwt) = 3
          /\ ValidBase64Url(output'[p].jwt[2])
          /\ output'[p].jwt[2].json]_vars

\* C17: with the loop as only writer, a sleep on a valid verdict lasts
\* max(60, seconds_left - REFRESH_MARGIN) and ends with the stored token
\* still at least REFRESH_MARGIN - 60 = 240 s from its expiry, and exactly
\* REFRESH_MARGIN from it when seconds_left - REFRESH_MARGIN was 60 or
\* more.
C17_ValidSleepEndsBeforeExpiry ==
  pc[Watchdog] = "sleep_valid" =>
    /\ StoredReadable
    /\ now <= wakeAt
    /\ StoredSecondsLeft >= REFRESH_MARGIN - 60
    /\ now < wakeAt =>
         /\ StoredSecondsLeft > REFRESH_MARGIN
         /\ wakeAt - now = Max(60, StoredSecondsLeft - REFRESH_MARGIN)
         /\ StoredSecondsLeft - (wakeAt - now) >= REFRESH_MARGIN - 60
         /\ StoredSecondsLeft - REFRESH_MARGIN >= 60
              => StoredSecondsLeft - (wakeAt - now) = REFRESH_MARGIN
C17_Witness ==
  /\ pc[Watchdog] = "sleep_valid" /\ now = wakeAt /\ now > 0
  /\ StoredReadable /\ StoredSecondsLeft < REFRESH_MARGIN

\* C18 (as claimed): in loop mode, once every refresh succeeds with a token
\* expiring more than REFRESH_MARGIN ahead, the loop reaches an iteration
\* that finds the stored token valid (after which it sleeps, or ends on the
\* conversion of exp), whatever the stored record and the failures before.
JudgedValid ==
  \/ pc[Watchdog] = "sleep_valid" /\ now >= FailUntil
  \/ pc[Watchdog] = "exited"
ShortTokenStored ==
  /\ tokenFile.st = "full" /\ tokenFile.rec.fetched_at >= FailUntil
  /\ IntOf(tokenFile.rec.jwt_payload.exp) - tokenFile.rec.fetched_at
       <= REFRESH_MARGIN + PostRefreshSleep
C19_NoBrowserLeftOpen ==
  \A p \in Procs :
    browser[p] => pc[p] \in {"acquire", "open", "dump", "closefile", "storage", "close"}
C19_Witness ==
  \E p \in Procs :
    /\ pc[p] = "return" /\ err[p] = "tokenwrite" /\ ~browser[p]
    /\ tokenFile.st \in {"empty", "partial"}

====
